---- MODULE Spec2Model ----
(***************************************************************************)
(* Multi-node multi-GPU OLS and Ridge regression (cpp/src/glm/ols_mg.cu,   *)
(* cpp/src/glm/ridge_mg.cu): one rank's fit and predict calls, the streams *)
(* each call creates, the work it issues on them and the device that       *)
(* executes that work asynchronously, one stream queue at a time.          *)
(* A second specification, GroupSpec, runs the calls of all ranks of the   *)
(* communicator side by side and keeps of each only the blocking           *)
(* collectives it enters (variable grp).                                   *)
(*                                                                         *)
(* Numbers of type T are exact rationals <<n, d>> (d > 0, lowest terms);   *)
(* <<0, 0>> stands for the outcome of a division by zero (NaN or Inf).     *)
(* Singular values are counted in units of 1e-11, so that the threshold    *)
(* T(1e-10) of ridgeSolve is 10 units; alpha is counted in units of 1e-22  *)
(* (the square of the unit of S) and the shrinkage ratio in units of 1e11. *)
(***************************************************************************)
EXTENDS Integers, Sequences, FiniteSets, TLC

VARIABLES rank, ncalls, call, pc, abort, i, n_streams, streams, garbage,
          live, queue, dev, intercept, stats, scratch, U, ghost, grp

vars == <<rank, ncalls, call, pc, abort, i, n_streams, streams, garbage,
          live, queue, dev, intercept, stats, scratch, U, ghost, grp>>

\* ------------------------------------------------------------------ bounds
\* longest list of (rank, size) pairs a call is given
MaxParts == 2
\* number of fit/predict calls made one after the other
MaxCalls == 2

Ranks == {0, 1}
Sizes == {1, 2}
NCols == {1, 2}
Algos == {0, 1, 2, 3}

\* ------------------------------------------------------------- arithmetic
Abs(x) == IF x < 0 THEN -x ELSE x

RECURSIVE GCD(_, _)
GCD(a, b) == IF b = 0 THEN a ELSE GCD(b, a % b)

NaN == <<0, 0>>

Norm(n, d) ==
  IF d = 0 THEN NaN
  ELSE LET g == GCD(Abs(n), Abs(d))
           s == IF d < 0 THEN -1 ELSE 1
       IN  <<(s * n) \div g, (s * d) \div g>>

R(n) == <<n, 1>>

IsNaN(a) == a[2] = 0

RAdd(a, b) ==
  IF IsNaN(a) \/ IsNaN(b) THEN NaN
  ELSE Norm(a[1] * b[2] + b[1] * a[2], a[2] * b[2])

RMul(a, b) ==
  IF IsNaN(a) \/ IsNaN(b) THEN NaN ELSE Norm(a[1] * b[1], a[2] * b[2])

RDiv(a, b) ==
  IF IsNaN(a) \/ IsNaN(b) \/ b[1] = 0 THEN NaN
  ELSE Norm(a[1] * b[2], a[2] * b[1])

RAbs(a) == <<Abs(a[1]), a[2]>>

RLt(a, b) == a[1] * b[2] < b[1] * a[2]

RECURSIVE Dot(_, _)
Dot(x, y) ==
  IF x = <<>> THEN R(0)
  ELSE RAdd(RMul(Head(x), Head(y)), Dot(Tail(x), Tail(y)))

RECURSIVE VSum(_, _)
VSum(vs, n) ==
  IF vs = <<>> THEN [k \in 1..n |-> R(0)]
  ELSE LET r == VSum(Tail(vs), n) IN [k \in 1..n |-> RAdd(Head(vs)[k], r[k])]

RECURSIVE Flatten(_)
Flatten(ss) == IF ss = <<>> THEN <<>> ELSE Head(ss) \o Flatten(Tail(ss))

Range(s) == {s[k] : k \in DOMAIN s}

\* --------------------------------------------- primitives (src_prims, opg)
\* LinAlg::gemm with an m x k matrix a (a sequence of rows), a k-vector b and
\* an m-vector c: c = alpha * a * b + beta * c; beta = 0 does not read c
gemm(a, b, c, alpha, beta) ==
  [j \in 1..Len(a) |->
     IF beta = R(0) THEN RMul(alpha, Dot(a[j], b))
     ELSE RAdd(RMul(alpha, Dot(a[j], b)), RMul(beta, c[j]))]

\* LinAlg::addScalar(out, in, scalar, len): out[j] = in[j] + scalar
addScalar(in, scalar) == [j \in 1..Len(in) |-> RAdd(in[j], scalar)]

\* Matrix::setSmallValuesZero(S, len, stream, thres): floor to exactly zero
\* every value below thres in magnitude
setSmallValuesZero(S, t) ==
  [j \in 1..Len(S) |-> IF RLt(RAbs(S[j]), t) THEN R(0) ELSE S[j]]

\* Matrix::power(in, len): in[j] = in[j]^2
power(in) == [j \in 1..Len(in) |-> RMul(in[j], in[j])]

\* Matrix::matrixVectorBinaryDivSkipZero(S, S_nnz, 1, N, ..., return_zero):
\* S[j] / S_nnz[j], a position whose floored S is exactly zero yields zero
matrixVectorBinaryDivSkipZero(S, vec) ==
  [j \in 1..Len(S) |-> IF S[j] = R(0) THEN R(0) ELSE RDiv(S[j], vec[j])]

\* Matrix::matrixVectorBinaryMult(V, S, N, N, false, true): column k of V is
\* scaled by S[k]
matrixVectorBinaryMult(V, vec) ==
  [r \in 1..Len(V) |-> [k \in 1..Len(V[r]) |-> RMul(V[r][k], vec[k])]]

\* PartDescriptor::blocksOwnedBy(rank): the indices, in order, of the blocks
\* of partsToRanks that the rank owns
blocksOwnedBy(parts, r) == SelectSeq([k \in 1..Len(parts) |-> k],
                                     LAMBDA k : parts[k].rank = r)

\* LinAlg::opg::mv_aTb(out, U, UDesc, b, comm, ...): out = sum over the blocks
\* of every rank of U_k^T * b_k, a blocking collective
mv_aTb(Ublocks, b, n) ==
  VSum(Flatten([k \in 1..Len(Ublocks) |->
         [j \in 1..Len(Ublocks[k]) |->
            [c \in 1..n |-> RMul(Ublocks[k][j][c], b[k][j])]]]), n)

\* GLM::opg::postProcessData: undo the column scaling of coef when normalize,
\* then intercept = mu_labels - coef . mu_input
postProcessData(coef, st, normalize) ==
  LET c == [k \in 1..Len(coef) |->
              IF normalize THEN RDiv(coef[k], st.norm2_input[k]) ELSE coef[k]]
  IN  [coef |-> c,
       intercept |-> RAdd(st.mu_labels, RMul(R(-1), Dot(c, st.mu_input)))]

\* ------------------------------------------------------------------ state
\* the legacy default stream, and a handle that names no stream
DefaultStream == 0
InvalidStream == -1
NoStream == -2
Handles == 0..(MaxCalls * MaxParts)

\* previous contents of a caller's output buffer
Stale == R(7)

Layouts == UNION {[1..n -> [rank : Ranks, size : Sizes]] : n \in 0..MaxParts}

\* the design-matrix blocks handed to predict: block k has size_k rows of N values
InputBlocks(parts, N, g) ==
  [k \in 1..Len(parts) |->
     [j \in 1..parts[k].size |-> [c \in 1..N |-> R(g * k + j - c)]]]

CoefOf(N) == [c \in 1..N |-> R(c + 1)]

NoCall == [model |-> "none", op |-> "none", parts |-> <<>>, N |-> 0,
           fit_intercept |-> FALSE, normalize |-> FALSE, algo |-> 0,
           alpha |-> <<>>, n_alpha |-> 0, nData |-> 0, intercept |-> R(0)]

NoDev == [input |-> <<>>, preds |-> <<>>, coef |-> <<>>, labels |-> "entry",
          S |-> <<>>, V |-> <<>>, S_nnz |-> <<>>]

NoStats == [mu_input |-> <<>>, mu_labels |-> R(0), norm2_input |-> <<>>]

NoGhost == [hist |-> <<>>, calls |-> <<>>, done |-> <<>>, touched |-> {},
            coef0 |-> <<>>, S0 |-> <<>>, V0 |-> <<>>, utb |-> <<>>,
            idx |-> {}, old |-> {}, preds0 |-> <<>>]

\* the ranks of the communicator, when no group call is under way
NoGroup == [op |-> [r \in Ranks |-> "none"],
            fit_intercept |-> [r \in Ranks |-> FALSE],
            model |-> "none", parts |-> <<>>, N |-> 0, normalize |-> FALSE,
            algo |-> 0,
            pc |-> [r \in Ranks |-> "idle"],
            wait |-> [r \in Ranks |-> "none"],
            log |-> [r \in Ranks |-> <<>>],
            garbage |-> [r \in Ranks |-> NoStream],
            abort |-> [r \in Ranks |-> "none"]]

Init ==
  /\ grp = NoGroup
  /\ rank \in Ranks
  /\ ncalls = 0
  /\ call = NoCall
  /\ pc = "idle"
  /\ abort = "none"
  /\ i = 0
  /\ n_streams = 0
  /\ streams = <<>>
  /\ garbage = NoStream
  /\ live = {}
  /\ queue = [h \in Handles |-> <<>>]
  /\ dev = NoDev
  /\ intercept = R(0)
  /\ stats = NoStats
  /\ scratch = {}
  /\ U = <<>>
  /\ ghost = NoGhost

\* a kernel or copy queued on a stream: kind, block, two scalar arguments
Op(k, b, x, y) == [k |-> k, b |-> b, x |-> x, y |-> y]

Ev(e, h, k, b) == [e |-> e, h |-> h, k |-> k, b |-> b]

\* queue q with the operations ops appended to stream h
Enqueue(q, h, ops) == [q EXCEPT ![h] = @ \o ops]

IssueEvents(h, ops) == [k \in 1..Len(ops) |-> Ev("issue", h, ops[k].k, ops[k].b)]

\* streams[0] as the callee reads it: the first stream of the call, or, when
\* the call created none, whatever the out-of-bounds read yields
Stream0 == IF n_streams > 0 THEN streams[1] ELSE garbage

\* ------------------------------------------------------------ entry points
CanCall == pc = "idle" /\ ncalls < MaxCalls

\* input_data.size() as a caller may pass it with the descriptor parts: one
\* partition per block the rank owns, or, as predict is called, one per block
\* of the descriptor
InputCounts(parts) == {Len(blocksOwnedBy(parts, rank)), Len(parts)}

\* fit(handle, input_data, input_desc, labels, [alpha, n_alpha,] coef,
\*     intercept, fit_intercept, normalize, algo, verbose), with nd the size of
\* input_data
CallFit(m, parts, N, fi, nz, algo, alpha, nd) ==
  /\ CanCall
  /\ ncalls' = ncalls + 1
  /\ call' = [model |-> m, op |-> "fit", parts |-> parts, N |-> N,
              fit_intercept |-> fi, normalize |-> nz, algo |-> algo,
              alpha |-> alpha, n_alpha |-> Len(alpha),
              nData |-> nd, intercept |-> R(0)]
  /\ dev' = [NoDev EXCEPT !.input = "entry", !.coef = [c \in 1..N |-> Stale]]
  /\ intercept' = Stale
  /\ stats' = NoStats
  /\ U' = <<>>
  /\ ghost' = [NoGhost EXCEPT !.coef0 = [c \in 1..N |-> Stale],
                              !.old = 1..(ncalls * MaxParts)]
  /\ pc' = "create"
  /\ i' = 0
  /\ n_streams' = 0
  /\ streams' = <<>>
  /\ garbage' = NoStream
  /\ UNCHANGED <<grp, rank, abort, live, queue, scratch>>

\* predict(handle, rank_sizes, n_parts, input, n_rows, n_cols, coef,
\*         intercept, preds, verbose)
CallPredict(m, parts, N, g, b0, old) ==
  /\ CanCall
  /\ ncalls' = ncalls + 1
  /\ call' = [NoCall EXCEPT !.model = m, !.op = "predict", !.parts = parts,
                            !.N = N, !.nData = Len(parts), !.intercept = b0]
  /\ dev' = [NoDev EXCEPT !.input = InputBlocks(parts, N, g),
                          !.preds = [k \in 1..Len(parts) |->
                                       [j \in 1..parts[k].size |-> old]],
                          !.coef = CoefOf(N)]
  /\ intercept' = b0
  /\ stats' = NoStats
  /\ U' = <<>>
  /\ ghost' = [NoGhost EXCEPT !.done = [k \in 1..Len(parts) |-> <<>>],
                              !.coef0 = CoefOf(N),
                              !.preds0 = [k \in 1..Len(parts) |->
                                            [j \in 1..parts[k].size |-> old]],
                              !.old = 1..(ncalls * MaxParts)]
  /\ pc' = "create"
  /\ i' = 0
  /\ n_streams' = 0
  /\ streams' = <<>>
  /\ garbage' = NoStream
  /\ UNCHANGED <<grp, rank, abort, live, queue, scratch>>

\* the stream the k-th cudaStreamCreate of the c-th call returns: a new one
Handle(c, k) == (c - 1) * MaxParts + k

\* int n_streams = ...: fit sizes the pool by the blocks the rank owns,
\* predict by n_parts
StreamCount(c) ==
  IF c.op = "fit" THEN Len(blocksOwnedBy(c.parts, rank)) ELSE Len(c.parts)

\* the loop of cudaStreamCreate at the start of the call
CreateStreams ==
  /\ pc = "create"
  /\ LET n == StreamCount(call)
         hs == [k \in 1..n |-> Handle(ncalls, k)]
     IN  /\ n_streams' = n
         /\ streams' = hs
         /\ live' = live \cup Range(hs)
         /\ ghost' = [ghost EXCEPT !.hist = @ \o [k \in 1..n |-> Ev("create", hs[k], "", 0)]]
         /\ IF call.op = "fit" /\ n = 0
            THEN garbage' \in {DefaultStream, InvalidStream}
            ELSE garbage' = NoStream
  /\ pc' = IF call.op = "fit" THEN "fit_pre"
           ELSE IF call.nData > 0 THEN "predict"
           ELSE "sync"
  /\ i' = 1
  /\ UNCHANGED <<grp, rank, ncalls, call, abort, queue, dev, intercept, stats, scratch, U>>

StreamsToSync_short(n) == 1..(n - 1)

\* the streams the loop "for (i = 0; i < n_streams; i++) cudaStreamSynchronize"
\* waits for
StreamsToSync(n) == 1..n

\* one cudaStreamSynchronize(streams[i]): the host blocks until the stream is idle
SyncStream ==
  /\ pc = "sync"
  /\ i \in StreamsToSync(n_streams)
  /\ queue[streams[i]] = <<>>
  /\ ghost' = [ghost EXCEPT !.hist = Append(@, Ev("sync", streams[i], "", 0))]
  /\ i' = i + 1
  /\ UNCHANGED <<grp, rank, ncalls, call, pc, abort, n_streams, streams, garbage,
                 live, queue, dev, intercept, stats, scratch, U>>

\* the loop of cudaStreamDestroy, and the return to the caller
DestroyStreams ==
  /\ pc = "sync"
  /\ i \notin StreamsToSync(n_streams)
  /\ live' = live \ Range(streams)
  /\ ghost' = [ghost EXCEPT !.hist = @ \o [k \in 1..n_streams |-> Ev("destroy", streams[k], "", 0)]]
  /\ pc' = "returned"
  /\ UNCHANGED <<grp, rank, ncalls, call, abort, i, n_streams, streams, garbage,
                 queue, dev, intercept, stats, scratch, U>>

\* ----------------------------------------------------------------- predict
\* T alpha = T(1); T beta = T(0)
alpha_one == R(1)

beta_one == R(1)

beta_zero == R(0)

\* int si = i % n_streams
StreamIndex(k, n) == k % n

PredictOps_swapped(k, b0) ==
  <<Op("addScalar", k + 1, b0, R(0)), Op("gemm", k + 1, alpha_one, beta_zero)>>

\* the two operations predict_impl issues for block k (0-based), in order
PredictOps(k, b0) ==
  <<Op("gemm", k + 1, alpha_one, beta_zero), Op("addScalar", k + 1, b0, R(0))>>

\* one iteration of the loop over input_data in predict_impl
PredictBlock ==
  /\ pc = "predict"
  /\ i \in 1..call.nData
  /\ LET h == streams[StreamIndex(i - 1, n_streams) + 1]
         ops == PredictOps(i - 1, intercept)
     IN  /\ queue' = Enqueue(queue, h, ops)
         /\ ghost' = [ghost EXCEPT !.hist = @ \o IssueEvents(h, ops)]
  /\ IF i = call.nData THEN pc' = "sync" /\ i' = 1 ELSE pc' = pc /\ i' = i + 1
  /\ UNCHANGED <<grp, rank, ncalls, call, abort, n_streams, streams, garbage,
                 live, dev, intercept, stats, scratch, U>>

\* ------------------------------------------------------------------ device
\* the effect of one operation on the device buffers
ApplyOp(d, op) ==
  CASE op.k = "gemm" ->
         [d EXCEPT !.preds[op.b] = gemm(d.input[op.b], d.coef, @, op.x, op.y)]
    [] op.k = "addScalar" ->
         [d EXCEPT !.preds[op.b] = addScalar(@, op.x)]
    [] op.k = "setSmallValuesZero" ->
         [d EXCEPT !.S = setSmallValuesZero(@, op.x)]
    [] op.k = "copy" -> [d EXCEPT !.S_nnz = d.S]
    [] op.k = "power" -> [d EXCEPT !.S_nnz = power(@)]
    [] op.k = "addScalar_nnz" -> [d EXCEPT !.S_nnz = addScalar(@, op.x)]
    [] op.k = "divSkipZero" ->
         [d EXCEPT !.S = matrixVectorBinaryDivSkipZero(@, d.S_nnz)]
    [] op.k = "mult" -> [d EXCEPT !.V = matrixVectorBinaryMult(@, d.S)]
    [] op.k = "gemm_w" -> [d EXCEPT !.coef = gemm(d.V, d.S_nnz, @, op.x, op.y)]
    [] OTHER -> d

\* the device runs the operation at the head of one stream's queue; queues of
\* different streams advance independently
Exec(h) ==
  /\ queue[h] # <<>>
  /\ LET op == Head(queue[h])
     IN  /\ dev' = ApplyOp(dev, op)
         /\ ghost' = IF op.k \in {"gemm", "addScalar"}
                     THEN [ghost EXCEPT !.done[op.b] = Append(@, op.k),
                                        !.touched = @ \cup {op.b}]
                     ELSE ghost
  /\ queue' = [queue EXCEPT ![h] = Tail(@)]
  /\ UNCHANGED <<grp, rank, ncalls, call, pc, abort, i, n_streams, streams, garbage,
                 live, intercept, stats, scratch, U>>

\* --------------------------------------------------------------------- fit
\* what an opg primitive that is handed (streams, n_streams) leaves behind:
\* one piece of asynchronous work on each stream of the call
ExtOps == <<Op("ext", 0, R(0), R(0))>>

ExtWork(q) == [h \in Handles |-> IF h \in Range(streams) THEN q[h] \o ExtOps ELSE q[h]]

ExtEvents == [k \in 1..n_streams |-> Ev("issue", streams[k], "ext", 0)]

\* the statistics GLM::opg::preProcessData reduces over all ranks
StatsOf(N, nz) ==
  [mu_input |-> [c \in 1..N |-> R(1)], mu_labels |-> R(2),
   norm2_input |-> IF nz THEN [c \in 1..N |-> R(2)] ELSE <<>>]

DoPreProcess_always(c) == TRUE

\* if (fit_intercept) { ... preProcessData(...) }
DoPreProcess(c) == c.fit_intercept

\* if (fit_intercept) { postProcessData(...) } else { *intercept = T(0); }
DoPostProcess(c) == c.fit_intercept

\* fit_impl up to the dispatch: the three device_buffers on streams[0] and,
\* if fit_intercept, their resize and preProcessData, which centers (and, if
\* normalize, scales) the caller's partitions in place
FitPre ==
  /\ pc = "fit_pre"
  /\ IF DoPreProcess(call)
     THEN /\ scratch' = scratch \cup {"mu_input", "mu_labels"}
                          \cup (IF call.normalize THEN {"norm2_input"} ELSE {})
          /\ stats' = StatsOf(call.N, call.normalize)
          /\ dev' = [dev EXCEPT !.input = IF call.normalize THEN "centered_scaled"
                                          ELSE "centered",
                                !.labels = "centered"]
          /\ queue' = ExtWork(queue)
          /\ ghost' = [ghost EXCEPT !.idx = @ \cup {0},
                                    !.calls = Append(@, "preProcessData"),
                                    !.hist = @ \o ExtEvents]
     ELSE /\ ghost' = [ghost EXCEPT !.idx = @ \cup {0}]
          /\ UNCHANGED <<scratch, stats, dev, queue>>
  /\ pc' = "dispatch"
  /\ UNCHANGED <<grp, rank, ncalls, call, abort, i, n_streams, streams, garbage,
                 live, intercept, U>>

Unimplemented_algoOnly(algo, N) == algo = 0

\* algo == 0 || input_desc.N == 1
Unimplemented(algo, N) == algo = 0 \/ N = 1

\* ASSERT(false, "...no algorithm with this id has been implemented"): the
\* call ends here; the device_buffers of fit_impl are released as it unwinds,
\* the streams of the caller are not
AssertFalse ==
  /\ pc' = "aborted"
  /\ abort' = "not implemented"
  /\ scratch' = scratch \ {"mu_input", "mu_labels", "norm2_input"}
  /\ UNCHANGED <<grp, rank, ncalls, call, i, n_streams, streams, garbage,
                 live, queue, dev, intercept, stats, U, ghost>>

\* the coefficient vector LinAlg::opg::lstsqEig returns
LstsqCoef(N) == [c \in 1..N |-> R(c)]

\* the dispatch on algo of OLS fit_impl
DispatchOLS ==
  /\ pc = "dispatch"
  /\ call.model = "OLS"
  /\ IF Unimplemented(call.algo, call.N) THEN AssertFalse
     ELSE IF call.algo = 1
     THEN /\ dev' = [dev EXCEPT !.coef = LstsqCoef(call.N)]
          /\ queue' = ExtWork(queue)
          /\ ghost' = [ghost EXCEPT !.calls = Append(@, "lstsqEig"),
                                    !.hist = @ \o ExtEvents]
          /\ pc' = "fit_post"
          /\ UNCHANGED <<grp, rank, ncalls, call, abort, i, n_streams, streams, garbage,
                         live, intercept, stats, scratch, U>>
     ELSE AssertFalse

\* the dispatch on algo of Ridge fit_impl
DispatchRidge ==
  /\ pc = "dispatch"
  /\ call.model = "Ridge"
  /\ IF Unimplemented(call.algo, call.N) THEN AssertFalse
     ELSE IF call.algo = 1
     THEN /\ ghost' = [ghost EXCEPT !.calls = Append(@, "ridgeEig")]
          /\ pc' = "ridgeEig"
          /\ UNCHANGED <<grp, rank, ncalls, call, abort, i, n_streams, streams, garbage,
                         live, queue, dev, intercept, stats, scratch, U>>
     ELSE AssertFalse

\* the decompositions LinAlg::opg::svdEig may return for N = 2: S with a value
\* below, at and above the threshold, of either sign, and exact zero
SvdS == {<<R(20), R(-3)>>, <<R(10), R(0)>>, <<R(9), R(20)>>}
SvdV == {<<<<R(1), R(2)>>, <<R(3), R(4)>>>>}

\* the blocks of U (of every rank) and of the labels b, as mv_aTb reduces them
UBlocks(parts, N) ==
  [k \in 1..Len(parts) |->
     [j \in 1..parts[k].size |-> [c \in 1..N |-> R(k + c - j)]]]

LabelBlocks(parts, tag) ==
  [k \in 1..Len(parts) |->
     [j \in 1..parts[k].size |-> R(k + j - (IF tag = "centered" THEN 2 ELSE 0))]]

RECURSIVE SumSizes(_, _, _)
SumSizes(parts, own, k) ==
  IF k = 0 THEN 0 ELSE parts[own[k]].size + SumSizes(parts, own, k - 1)

\* the loop "for (i = 0; i < partsToRanks.size(); i++)" that carves U_parts:
\* the sub-buffers of the blocks k.. of the rank, curr_ptr being the offset
\* in U_parts reached so far
RECURSIVE CarveU(_, _, _, _, _)
CarveU(parts, own, N, k, curr_ptr) ==
  IF k > Len(own) THEN <<>>
  ELSE <<[totalSize |-> parts[own[k]].size, ptr |-> curr_ptr]>>
       \o CarveU(parts, own, N, k + 1, curr_ptr + parts[own[k]].size * N)

\* the loop "for (i = 0; i < A.size(); i++) U.push_back(&(U_temp[i]))": entry
\* i of U is the address of element i of U_temp
BuildU(nData) == [k \in 1..nData |-> k]

\* ridgeEig up to ridgeSolve: S, V and U_parts are allocated on streams[0],
\* U_parts is carved into one sub-buffer per owned block, U points at the
\* sub-buffers, and svdEig fills S, V and U; handed an entry of U that was
\* read past the end of U_temp, svdEig may as well fault
RidgeEig ==
  /\ pc = "ridgeEig"
  /\ LET own == blocksOwnedBy(call.parts, rank)
     IN  /\ U' = [total_size |-> SumSizes(call.parts, own, Len(own)) * call.N,
                  U_temp |-> CarveU(call.parts, own, call.N, 1, 0),
                  U |-> BuildU(call.nData)]
         /\ \/ /\ scratch' = scratch \cup {"S", "V", "U_parts"}
               /\ \E S \in SvdS, V \in SvdV :
                    /\ dev' = [dev EXCEPT !.S = S, !.V = V]
                    /\ ghost' = [ghost EXCEPT !.S0 = S, !.V0 = V,
                                              !.idx = @ \cup {0},
                                              !.calls = Append(@, "svdEig"),
                                              !.hist = @ \o ExtEvents]
               /\ queue' = ExtWork(queue)
               /\ pc' = "ridgeSolve"
               /\ UNCHANGED abort
            \/ /\ call.nData > Len(own)
               /\ pc' = "aborted"
               /\ abort' = "memory fault"
               /\ scratch' = {}
               /\ ghost' = [ghost EXCEPT !.idx = @ \cup {0},
                                         !.calls = Append(@, "svdEig")]
               /\ UNCHANGED <<queue, dev>>
  /\ UNCHANGED <<grp, rank, ncalls, call, i, n_streams, streams, garbage,
                 live, intercept, stats>>

\* T thres = T(1e-10), in units of 1e-11
thres == 10

ridgeSolveKernels_lastAlpha(alpha) ==
  <<Op("setSmallValuesZero", 0, R(thres), R(0)),
    Op("copy", 0, R(0), R(0)),
    Op("power", 0, R(0), R(0)),
    Op("addScalar_nnz", 0, alpha[Len(alpha)], R(0)),
    Op("divSkipZero", 0, R(0), R(0)),
    Op("mult", 0, R(0), R(0))>>

ridgeSolveKernels_noFloor(alpha) ==
  <<Op("copy", 0, R(0), R(0)),
    Op("power", 0, R(0), R(0)),
    Op("addScalar_nnz", 0, alpha[1], R(0)),
    Op("divSkipZero", 0, R(0), R(0)),
    Op("mult", 0, R(0), R(0))>>

ridgeSolveKernels_noMult(alpha) ==
  <<Op("setSmallValuesZero", 0, R(thres), R(0)),
    Op("copy", 0, R(0), R(0)),
    Op("power", 0, R(0), R(0)),
    Op("addScalar_nnz", 0, alpha[1], R(0)),
    Op("divSkipZero", 0, R(0), R(0))>>

\* the kernels ridgeSolve issues on streams[0] before mv_aTb, in order
ridgeSolveKernels(alpha) ==
  <<Op("setSmallValuesZero", 0, R(thres), R(0)),
    Op("copy", 0, R(0), R(0)),
    Op("power", 0, R(0), R(0)),
    Op("addScalar_nnz", 0, alpha[1], R(0)),
    Op("divSkipZero", 0, R(0), R(0)),
    Op("mult", 0, R(0), R(0))>>

\* a kernel launch on a handle that names no stream fails its CUDA check
CudaError ==
  /\ pc' = "aborted"
  /\ abort' = "cuda error"
  /\ scratch' = {}
  /\ UNCHANGED <<grp, rank, ncalls, call, i, n_streams, streams, garbage,
                 live, queue, dev, intercept, stats, U>>

\* ridgeSolve up to mv_aTb: S is floored, S_nnz = S^2 + alpha[0],
\* S = S / S_nnz, V = V * diag(S), all on streams[0]
RidgeSolve ==
  /\ pc = "ridgeSolve"
  /\ IF Stream0 = InvalidStream
     THEN /\ CudaError
          /\ ghost' = [ghost EXCEPT !.idx = @ \cup {0}]
     ELSE LET ops == ridgeSolveKernels(call.alpha)
          IN  /\ queue' = Enqueue(queue, Stream0, ops)
              /\ scratch' = scratch \cup {"S_nnz"}
              /\ ghost' = [ghost EXCEPT !.idx = @ \cup {0},
                                        !.hist = @ \o IssueEvents(Stream0, ops)]
              /\ pc' = "mv_aTb"
              /\ UNCHANGED <<grp, rank, ncalls, call, abort, i, n_streams, streams,
                             garbage, live, dev, intercept, stats, U>>

\* LinAlg::opg::mv_aTb(S_nnz_data, U, UDesc, b, ...): the blocking reduction;
\* it follows the work already queued on the streams it is given and
\* overwrites S_nnz with U^T * b
MvATb ==
  /\ pc = "mv_aTb"
  /\ queue[Stream0] = <<>>
  /\ \A h \in Range(streams) : queue[h] = <<>>
  /\ LET r == mv_aTb(UBlocks(call.parts, call.N),
                     LabelBlocks(call.parts, dev.labels), call.N)
     IN  /\ dev' = [dev EXCEPT !.S_nnz = r]
         /\ ghost' = [ghost EXCEPT !.utb = r, !.calls = Append(@, "mv_aTb")]
  /\ pc' = "gemm"
  /\ UNCHANGED <<grp, rank, ncalls, call, abort, i, n_streams, streams, garbage,
                 live, queue, intercept, stats, scratch, U>>

\* the operation that writes w: LinAlg::gemm(V, N, N, S_nnz, w, N, 1, ...,
\* alp, beta, cublasH, streams[0])
ridgeSolveGemm == <<Op("gemm_w", 0, R(1), R(0))>>

GemmW ==
  /\ pc = "gemm"
  /\ queue' = Enqueue(queue, Stream0, ridgeSolveGemm)
  /\ ghost' = [ghost EXCEPT !.idx = @ \cup {0},
                            !.hist = @ \o IssueEvents(Stream0, ridgeSolveGemm)]
  /\ pc' = "cudaFree"
  /\ UNCHANGED <<grp, rank, ncalls, call, abort, i, n_streams, streams, garbage,
                 live, dev, intercept, stats, scratch, U>>

RidgeReleased_leakSnnz == {"S", "V", "U_parts"}

\* what the end of ridgeSolve and ridgeEig releases: cudaFree(S_nnz), and the
\* device_buffers S, V and U_parts as they go out of scope
RidgeReleased == {"S_nnz", "S", "V", "U_parts"}

\* CUDA_CHECK(cudaFree(S_nnz)): cudaFree waits for the device to be idle; then
\* ridgeSolve and ridgeEig return and S, V and U_parts are released
CudaFree ==
  /\ pc = "cudaFree"
  /\ \A h \in Handles : queue[h] = <<>>
  /\ scratch' = scratch \ RidgeReleased
  /\ pc' = "fit_post"
  /\ UNCHANGED <<grp, rank, ncalls, call, abort, i, n_streams, streams, garbage,
                 live, queue, dev, intercept, stats, U, ghost>>

ZeroIntercept_stale == intercept

\* *intercept = T(0)
ZeroIntercept == R(0)

\* fit_impl after the solver: postProcessData if fit_intercept, else the
\* intercept is set to zero; then the device_buffers go out of scope
FitPost ==
  /\ pc = "fit_post"
  /\ IF DoPostProcess(call)
     THEN LET r == postProcessData(dev.coef, stats, call.normalize)
          IN  /\ dev' = [dev EXCEPT !.coef = r.coef]
              /\ intercept' = r.intercept
              /\ queue' = ExtWork(queue)
              /\ ghost' = [ghost EXCEPT !.calls = Append(@, "postProcessData"),
                                        !.hist = @ \o ExtEvents]
     ELSE /\ intercept' = ZeroIntercept
          /\ UNCHANGED <<dev, queue, ghost>>
  /\ scratch' = scratch \ {"mu_input", "mu_labels", "norm2_input"}
  /\ pc' = "sync"
  /\ i' = 1
  /\ UNCHANGED <<grp, rank, ncalls, call, abort, n_streams, streams, garbage,
                 live, stats, U>>

AlphaArrays == {<<R(-100)>>, <<R(0)>>, <<R(1)>>, <<R(1), R(5)>>}

\* the caller takes the results of a call that returned, before its next call
Returned ==
  /\ pc = "returned"
  /\ pc' = "idle"
  /\ call' = NoCall
  /\ dev' = NoDev
  /\ intercept' = R(0)
  /\ stats' = NoStats
  /\ U' = <<>>
  /\ ghost' = NoGhost
  /\ i' = 0
  /\ n_streams' = 0
  /\ streams' = <<>>
  /\ garbage' = NoStream
  /\ UNCHANGED <<grp, rank, ncalls, abort, live, queue, scratch>>

Next ==
  \/ /\ CanCall
     /\ \E parts \in Layouts, N \in NCols, fi \in BOOLEAN, nz \in BOOLEAN,
           algo \in Algos :
          \E nd \in InputCounts(parts) :
            CallFit("OLS", parts, N, fi, nz, algo, <<>>, nd)
  \/ /\ CanCall
     /\ \E parts \in Layouts, N \in NCols, fi \in BOOLEAN, nz \in BOOLEAN,
           algo \in Algos, alpha \in AlphaArrays :
          \E nd \in InputCounts(parts) :
            CallFit("Ridge", parts, N, fi, nz, algo, alpha, nd)
  \/ /\ CanCall
     /\ \E m \in {"OLS", "Ridge"}, parts \in Layouts, N \in NCols,
           b0 \in {R(0), R(3)}, old \in {R(0), R(9)} :
          CallPredict(m, parts, N, 2, b0, old)
  \/ CreateStreams
  \/ FitPre
  \/ DispatchOLS
  \/ DispatchRidge
  \/ RidgeEig
  \/ RidgeSolve
  \/ MvATb
  \/ GemmW
  \/ CudaFree
  \/ FitPost
  \/ PredictBlock
  \/ SyncStream
  \/ DestroyStreams
  \/ Returned
  \/ \E h \in Handles : Exec(h)

Spec == Init /\ [][Next]_vars

\* ------------------------------------------------------- the group of ranks
\* Every rank of the communicator runs its own call; a blocking collective
\* returns on a rank once every rank of the group has entered the same one.
Collectives == {"preProcessData", "lstsqEig", "svdEig", "mv_aTb", "postProcessData"}

\* the layouts of the group runs: who owns which block (all blocks of one row)
GroupLayouts == {p \in Layouts : \A k \in DOMAIN p : p[k].size = 1}

GroupInit ==
  /\ rank = 0
  /\ ncalls = 0
  /\ call = NoCall
  /\ pc = "idle"
  /\ abort = "none"
  /\ i = 0
  /\ n_streams = 0
  /\ streams = <<>>
  /\ garbage = NoStream
  /\ live = {}
  /\ queue = [h \in Handles |-> <<>>]
  /\ dev = NoDev
  /\ intercept = R(0)
  /\ stats = NoStats
  /\ scratch = {}
  /\ U = <<>>
  /\ ghost = NoGhost
  /\ \E op \in [Ranks -> {"fit", "predict", "none"}], fi \in [Ranks -> BOOLEAN],
        m \in {"OLS", "Ridge"}, parts \in GroupLayouts, N \in NCols,
        nz \in BOOLEAN, algo \in Algos :
       grp = [NoGroup EXCEPT !.op = op, !.fit_intercept = fi, !.model = m,
                             !.parts = parts, !.N = N, !.normalize = nz,
                             !.algo = algo,
                             !.pc = [r \in Ranks |->
                                       IF op[r] = "none" THEN "idle" ELSE "create"]]

\* rank r enters the blocking collective c
Enter(g, r, c) == [g EXCEPT !.wait[r] = c, !.log[r] = Append(@, c)]

Running(r, at) == grp.pc[r] = at /\ grp.wait[r] = "none"

GroupOnly == UNCHANGED <<rank, ncalls, call, pc, abort, i, n_streams, streams,
                         garbage, live, queue, dev, intercept, stats, scratch,
                         U, ghost>>

\* the stream pool of rank r: streams[0] of a fit that owns no block is
\* whatever the out-of-bounds read yields
GCreate(r) ==
  /\ Running(r, "create")
  /\ LET n == IF grp.op[r] = "fit" THEN Len(blocksOwnedBy(grp.parts, r))
              ELSE Len(grp.parts)
     IN  \E g \in IF grp.op[r] = "fit" /\ n = 0
                   THEN {DefaultStream, InvalidStream} ELSE {NoStream} :
           grp' = [grp EXCEPT !.garbage[r] = g,
                              !.pc[r] = IF grp.op[r] = "fit" THEN "fit_pre"
                                        ELSE "predict"]
  /\ GroupOnly

\* fit_impl up to the dispatch
GFitPre(r) ==
  /\ Running(r, "fit_pre")
  /\ grp' = IF DoPreProcess([fit_intercept |-> grp.fit_intercept[r]])
            THEN [Enter(grp, r, "preProcessData") EXCEPT !.pc[r] = "dispatch"]
            ELSE [grp EXCEPT !.pc[r] = "dispatch"]
  /\ GroupOnly

\* the dispatch on algo: the assertion, or the solver's first collective
GDispatch(r) ==
  /\ Running(r, "dispatch")
  /\ grp' = IF Unimplemented(grp.algo, grp.N) \/ grp.algo # 1
            THEN [grp EXCEPT !.pc[r] = "aborted", !.abort[r] = "not implemented"]
            ELSE IF grp.model = "OLS"
            THEN [Enter(grp, r, "lstsqEig") EXCEPT !.pc[r] = "fit_post"]
            ELSE [Enter(grp, r, "svdEig") EXCEPT !.pc[r] = "ridgeSolve"]
  /\ GroupOnly

\* ridgeSolve: the kernels on streams[0], then the reduction mv_aTb
GRidgeSolve(r) ==
  /\ Running(r, "ridgeSolve")
  /\ grp' = IF grp.garbage[r] = InvalidStream
            THEN [grp EXCEPT !.pc[r] = "aborted", !.abort[r] = "cuda error"]
            ELSE [Enter(grp, r, "mv_aTb") EXCEPT !.pc[r] = "fit_post"]
  /\ GroupOnly

\* fit_impl after the solver
GFitPost(r) ==
  /\ Running(r, "fit_post")
  /\ grp' = IF DoPostProcess([fit_intercept |-> grp.fit_intercept[r]])
            THEN [Enter(grp, r, "postProcessData") EXCEPT !.pc[r] = "sync"]
            ELSE [grp EXCEPT !.pc[r] = "sync"]
  /\ GroupOnly

PredictCollectives_reduce == <<"mv_aTb">>

\* the collectives predict_impl enters: gemm and addScalar are local kernels
PredictCollectives == <<>>

\* predict_impl: the loop over the blocks
GPredict(r) ==
  /\ Running(r, "predict")
  /\ grp' = IF PredictCollectives = <<>> THEN [grp EXCEPT !.pc[r] = "sync"]
            ELSE [Enter(grp, r, PredictCollectives[1]) EXCEPT !.pc[r] = "sync"]
  /\ GroupOnly

\* the synchronize and destroy loops, and the return
GReturn(r) ==
  /\ Running(r, "sync")
  /\ grp' = [grp EXCEPT !.pc[r] = "returned"]
  /\ GroupOnly

\* every rank of the group has entered collective c: it returns on all of them
GCollective(c) ==
  /\ \A r \in Ranks : grp.wait[r] = c
  /\ grp' = [grp EXCEPT !.wait = [r \in Ranks |-> "none"]]
  /\ GroupOnly

GRank(r) ==
  \/ GCreate(r) \/ GFitPre(r) \/ GDispatch(r) \/ GRidgeSolve(r)
  \/ GFitPost(r) \/ GPredict(r) \/ GReturn(r)

GroupNext ==
  \/ \E r \in Ranks : GCreate(r)
  \/ \E r \in Ranks : GFitPre(r)
  \/ \E r \in Ranks : GDispatch(r)
  \/ \E r \in Ranks : GRidgeSolve(r)
  \/ \E r \in Ranks : GFitPost(r)
  \/ \E r \in Ranks : GPredict(r)
  \/ \E r \in Ranks : GReturn(r)
  \/ \E c \in Collectives : GCollective(c)

\* every rank is a running process, and the communicator completes a
\* collective that all ranks have entered
GroupSpec ==
  /\ GroupInit
  /\ [][GroupNext]_vars
  /\ \A r \in Ranks : WF_vars(GRank(r))
  /\ WF_vars(\E c \in Collectives : GCollective(c))

\* ------------------------------------------------------------------ claims
IsFit == call.op = "fit"
IsPredict == call.op = "predict"

\* C1: a fit (OLS or Ridge) called with fit_intercept = false that returns
\* normally has written exactly 0 to the caller's intercept, whatever the
\* data, normalize and alpha.
C1_InterceptZero ==
  (IsFit /\ ~call.fit_intercept /\ pc = "returned") => intercept = R(0)

C1_Witness ==
  /\ IsFit /\ call.model = "Ridge" /\ ~call.fit_intercept /\ call.normalize
  /\ pc = "returned" /\ intercept = R(0)

SolverCalled ==
  \E k \in DOMAIN ghost.calls : ghost.calls[k] \in {"lstsqEig", "ridgeEig"}

BeforeSolver == pc \in {"create", "fit_pre", "dispatch"}

\* C2: in a fit the solver is invoked if and only if algo = 1 and N # 1; every
\* other call ends in the "not implemented" assertion with the solver never
\* invoked and neither the coefficient vector nor the intercept written.
C2_SolverIffAlgo1 ==
  IsFit =>
    /\ BeforeSolver => ~SolverCalled
    /\ ~BeforeSolver =>
         /\ SolverCalled <=> (call.algo = 1 /\ call.N # 1)
         /\ ~(call.algo = 1 /\ call.N # 1) =>
              /\ pc = "aborted" /\ abort = "not implemented"
              /\ dev.coef = ghost.coef0
              /\ intercept = Stale

C2_Witness ==
  /\ IsFit /\ call.algo = 1 /\ call.N = 1 /\ call.fit_intercept
  /\ pc = "aborted" /\ abort = "not implemented" /\ ~SolverCalled

\* C3: a fit or predict call that returns normally has synchronized every
\* stream it created, each synchronization after all the work of the call was
\* issued and before any stream of the call was destroyed, and no work is
\* pending on any stream when the call returns.
C3_SyncedBeforeReturn ==
  pc = "returned" =>
    /\ \A k \in 1..n_streams :
         \E p \in DOMAIN ghost.hist :
           /\ ghost.hist[p].e = "sync" /\ ghost.hist[p].h = streams[k]
           /\ \A q \in DOMAIN ghost.hist :
                /\ ghost.hist[q].e = "issue" => q < p
                /\ ghost.hist[q].e = "destroy" => p < q
    /\ \A h \in Handles : queue[h] = <<>>

C3_Witness ==
  /\ pc = "returned" /\ n_streams = 2
  /\ \E q \in DOMAIN ghost.hist :
       ghost.hist[q].e = "issue" /\ ghost.hist[q].h = streams[2]

\* C4: predict on rank r touches only the blocks whose owning rank is r: the
\* input buffer of a block owned by another rank is not read and its
\* prediction buffer is not written.
C4_OnlyOwnedBlocks ==
  IsPredict =>
    /\ \A b \in ghost.touched : call.parts[b].rank = rank
    /\ \A q \in DOMAIN ghost.hist :
         ghost.hist[q].e = "issue" => call.parts[ghost.hist[q].b].rank = rank

\* C5: when predict returns, the prediction buffer of every block holds, row
\* by row, block * coef + intercept and nothing of its previous contents, so
\* a row's prediction depends on the row, coef and intercept alone.
C5_PredictPure ==
  (IsPredict /\ pc = "returned") =>
    \A k \in 1..Len(call.parts) :
      /\ Len(dev.preds[k]) = call.parts[k].size
      /\ \A j \in 1..call.parts[k].size :
           dev.preds[k][j] = RAdd(Dot(dev.input[k][j], ghost.coef0), call.intercept)

C5_Witness ==
  /\ IsPredict /\ pc = "returned" /\ Len(call.parts) = 2
  /\ call.parts[2].size = 2 /\ call.intercept = R(3)
  /\ ghost.preds0[2][2] = R(9) /\ dev.preds[2][2] # R(9)

RECURSIVE RunOps(_, _)
RunOps(d, ops) == IF ops = <<>> THEN d ELSE RunOps(ApplyOp(d, Head(ops)), Tail(ops))

\* the coefficient vector a Ridge solve on the decomposition (S, V), the
\* reduction result utb and the array alpha arrives at
RidgeW(S, V, utb, w0, alpha) ==
  LET d1 == RunOps([NoDev EXCEPT !.S = S, !.V = V, !.coef = w0],
                   ridgeSolveKernels(alpha))
  IN  RunOps([d1 EXCEPT !.S_nnz = utb], ridgeSolveGemm).coef

\* C6: Ridge fit honours alpha[0] alone: the coefficient vector and intercept
\* a call produces are those of every call that agrees with it on all
\* arguments and on alpha[0], whatever n_alpha and alpha[i], i >= 1, are.
C6_OnlyAlpha0 ==
  (IsFit /\ call.model = "Ridge" /\ pc \in {"fit_post", "returned"}) =>
    \A a2 \in AlphaArrays :
      a2[1] = call.alpha[1] =>
        LET w == RidgeW(ghost.S0, ghost.V0, ghost.utb, ghost.coef0, a2)
            r == postProcessData(w, stats, call.normalize)
        IN  IF pc = "fit_post" THEN dev.coef = w
            ELSE IF call.fit_intercept
                 THEN dev.coef = r.coef /\ intercept = r.intercept
                 ELSE dev.coef = w /\ intercept = R(0)

C6_Witness ==
  /\ IsFit /\ call.model = "Ridge" /\ pc = "returned"
  /\ call.n_alpha = 2 /\ call.alpha[2] # call.alpha[1]
  /\ \E a2 \in AlphaArrays : a2 # call.alpha /\ a2[1] = call.alpha[1]

\* the shrinkage ratio of a singular value s under alpha (s in units of
\* 1e-11): 0 below 1e-10 in magnitude, s / (s^2 + alpha) from there on
Ratio(s, a) ==
  IF RLt(RAbs(s), R(10)) THEN R(0) ELSE RDiv(s, RAdd(RMul(s, s), a))

RatioDone == IsFit /\ call.model = "Ridge" /\ pc \in {"gemm", "cudaFree"}

\* C7: in the shrinkage solve a singular value s with |s| < 1e-10 gets the
\* ratio exactly 0 for every alpha, alpha = 0 included (never NaN or Inf);
\* for |s| >= 1e-10 with s^2 + alpha # 0 the ratio is s / (s^2 + alpha).
C7_ShrinkageRatio ==
  RatioDone =>
    \A j \in 1..call.N :
      LET s0 == ghost.S0[j]
          a == call.alpha[1]
      IN  /\ RLt(RAbs(s0), R(10)) => dev.S[j] = R(0)
          /\ (~RLt(RAbs(s0), R(10)) /\ RAdd(RMul(s0, s0), a) # R(0)) =>
               /\ dev.S[j] = RDiv(s0, RAdd(RMul(s0, s0), a))
               /\ ~IsNaN(dev.S[j])

C7_Witness ==
  /\ RatioDone /\ call.alpha[1] = R(0)
  /\ ghost.S0 = <<R(9), R(20)>> /\ dev.S = <<R(0), <<1, 20>>>>

\* V * diag(ratio) * utb
Shrunk(V, ratio, utb) ==
  [r \in 1..Len(V) |->
     Dot(V[r], [k \in 1..Len(ratio) |-> RMul(ratio[k], utb[k])])]

\* the reduction U^T * b over the blocks of all ranks, entry c
RECURSIVE SumRows(_, _, _, _, _)
SumRows(Ub, b, c, k, j) ==
  IF k = 0 THEN R(0)
  ELSE IF j = 0 THEN (IF k = 1 THEN R(0) ELSE SumRows(Ub, b, c, k - 1, Len(Ub[k - 1])))
  ELSE RAdd(RMul(Ub[k][j][c], b[k][j]), SumRows(Ub, b, c, k, j - 1))

UtbOf(parts, N, tag) ==
  LET Ub == UBlocks(parts, N)
      b == LabelBlocks(parts, tag)
  IN  [c \in 1..N |->
         IF Len(parts) = 0 THEN R(0)
         ELSE SumRows(Ub, b, c, Len(parts), Len(Ub[Len(parts)]))]

WDone == IsFit /\ call.model = "Ridge" /\ pc = "fit_post"

\* C8 as stated: w = V * diag(s / (s^2 + alpha)) * U^T * b with s the
\* singular values as the decomposition returned them; taken in the case of
\* a rank that owns a block, alpha = 0 and no singular value exactly zero.
C8_Original ==
  (WDone /\ n_streams > 0 /\ call.alpha[1] = R(0)
         /\ \A k \in 1..call.N : ghost.S0[k] # R(0)) =>
    dev.coef = Shrunk(ghost.V0,
                      [k \in 1..call.N |->
                         RDiv(ghost.S0[k],
                              RAdd(RMul(ghost.S0[k], ghost.S0[k]), call.alpha[1]))],
                      UtbOf(call.parts, call.N, dev.labels))

\* C8, amended: ridgeSolve writes w = V * diag(ratio) * U^T * b, the ratio of
\* a singular value below 1e-10 in magnitude being 0 and s / (s^2 + alpha)
\* otherwise, with U^T * b summed over the blocks of all ranks; once the
\* reduction ran the scratch buffer S_nnz holds U^T * b, not S^2 + alpha.
C8_ShrinkageSolve ==
  /\ RatioDone => dev.S_nnz = UtbOf(call.parts, call.N, dev.labels)
  /\ WDone =>
       dev.coef = Shrunk(ghost.V0,
                         [k \in 1..call.N |-> Ratio(ghost.S0[k], call.alpha[1])],
                         UtbOf(call.parts, call.N, dev.labels))

C8_Witness ==
  /\ WDone /\ Len(call.parts) = 2 /\ call.parts[1].rank # call.parts[2].rank
  /\ ghost.S0 = <<R(20), R(-3)>> /\ call.alpha[1] = R(1)
  /\ dev.coef # ghost.coef0 /\ dev.S_nnz # <<R(401), R(1)>>

\* C9: every fit and predict call on rank r creates exactly one stream per
\* block the rank owns in the layout it is given and none for a block of
\* another rank, creates them before anything else, and uses no stream of an
\* earlier call.
C9_StreamPerOwnedBlock ==
  (call.op # "none" /\ pc # "create") =>
    /\ n_streams = Len(blocksOwnedBy(call.parts, rank))
    /\ Range(streams) \cap ghost.old = {}
    /\ \A q \in DOMAIN ghost.hist :
         /\ ghost.hist[q].e = "create" => q <= n_streams
         /\ ghost.hist[q].e = "issue" => ghost.hist[q].h \notin ghost.old

IssuedBlock(b) == pc \in {"sync", "returned"} \/ (pc = "predict" /\ b < i)

\* C10: in predict the multiply and the add-intercept of block i are issued,
\* in this order, on stream i mod n_streams, and the add-intercept of a block
\* never runs before its multiply.
C10_MultiplyThenAdd ==
  IsPredict =>
    \A b \in 1..call.nData :
      /\ ghost.done[b] \in {<<>>, <<"gemm">>, <<"gemm", "addScalar">>}
      /\ IssuedBlock(b) =>
           LET h == streams[((b - 1) % n_streams) + 1]
           IN  \E p, q \in DOMAIN ghost.hist :
                 /\ p < q
                 /\ ghost.hist[p] = Ev("issue", h, "gemm", b)
                 /\ ghost.hist[q] = Ev("issue", h, "addScalar", b)

\* blocks on different streams are not ordered: block 2, issued second, is
\* finished before block 1 has started
C10_Witness ==
  /\ IsPredict /\ call.nData = 2 /\ n_streams = 2 /\ streams[1] # streams[2]
  /\ ghost.done[2] = <<"gemm", "addScalar">> /\ ghost.done[1] = <<>>

\* the invocations of preprocessing, solver and postprocessing, in call order
Phases == SelectSeq(ghost.calls,
                    LAMBDA c : c \in {"preProcessData", "lstsqEig", "ridgeEig",
                                      "postProcessData"})

SolverOf(m) == IF m = "OLS" THEN "lstsqEig" ELSE "ridgeEig"

IsPrefix(a, b) == Len(a) <= Len(b) /\ a = SubSeq(b, 1, Len(a))

\* C11: in a fit preprocessing is invoked iff fit_intercept, postprocessing
\* iff fit_intercept and the solver returned, in the order preprocessing,
\* solver, postprocessing and each at most once; with fit_intercept = false
\* neither runs, the caller's data are left as passed and the result is the
\* solver's coefficient vector and intercept 0, whatever normalize is.
C11_PrePostOrder ==
  IsFit =>
    LET pre == IF call.fit_intercept THEN <<"preProcessData">> ELSE <<>>
        post == IF call.fit_intercept THEN <<"postProcessData">> ELSE <<>>
        sol == <<SolverOf(call.model)>>
    IN  /\ IsPrefix(Phases, pre \o sol \o post)
        /\ pc \notin {"create", "fit_pre"} => IsPrefix(pre, Phases)
        /\ pc = "fit_post" => Phases = pre \o sol
        /\ pc \in {"sync", "returned"} => Phases = pre \o sol \o post
        /\ pc = "aborted" => Len(Phases) <= Len(pre \o sol)
        /\ (~call.fit_intercept /\ pc = "returned") =>
             /\ dev.input = "entry" /\ dev.labels = "entry" /\ stats = NoStats
             /\ intercept = R(0)
             /\ dev.coef = IF call.model = "OLS" THEN LstsqCoef(call.N)
                            ELSE RidgeW(ghost.S0, ghost.V0,
                                        UtbOf(call.parts, call.N, "entry"),
                                        ghost.coef0, call.alpha)

C11_Witness ==
  /\ IsFit /\ call.model = "Ridge" /\ call.fit_intercept /\ call.normalize
  /\ pc = "returned"
  /\ Phases = <<"preProcessData", "ridgeEig", "postProcessData">>

AllFit == \A r \in Ranks : grp.op[r] = "fit"

Uniform == AllFit /\ \A r \in Ranks : grp.fit_intercept[r] = grp.fit_intercept[0]

Finished(r) == grp.pc[r] \in {"returned", "aborted"}

\* the collectives of a fit, as its arguments alone determine them
FitCollectives(m, fi, algo, N) ==
  (IF fi THEN <<"preProcessData">> ELSE <<>>)
  \o (IF algo = 1 /\ N # 1
      THEN (IF m = "OLS" THEN <<"lstsqEig">> ELSE <<"svdEig", "mv_aTb">>)
           \o (IF fi THEN <<"postProcessData">> ELSE <<>>)
      ELSE <<>>)

\* C12: when all ranks call fit with the same fit_intercept, normalize, algo
\* and N, every rank enters the same sequence of collectives, the one the
\* arguments determine, whatever its rank id and the blocks it owns, and no
\* rank is left waiting in a collective by a rank that ended without it; if
\* the ranks differ in fit_intercept the fit does not complete on all ranks.
\* (Taken for layouts of at least one block.)
C12_UniformCollectives ==
  /\ (Uniform /\ grp.parts # <<>>) =>
       \A r \in Ranks :
         LET e == FitCollectives(grp.model, grp.fit_intercept[r], grp.algo, grp.N)
         IN  /\ IsPrefix(grp.log[r], e)
             /\ Finished(r) => grp.log[r] = e
  /\ (AllFit /\ ~Uniform) => ~(\A r \in Ranks : grp.pc[r] = "returned")

EveryRankOwnsABlock == \A r \in Ranks : blocksOwnedBy(grp.parts, r) # <<>>

\* a uniform fit in which every rank owns a block ends on all ranks
UniformFitEnds == (Uniform /\ EveryRankOwnsABlock) ~> (\A r \in Ranks : Finished(r))

\* ... and enters the same collectives on all ranks
UniformFitLogs ==
  (Uniform /\ EveryRankOwnsABlock) =>
    \A r \in Ranks :
      LET e == FitCollectives(grp.model, grp.fit_intercept[r], grp.algo, grp.N)
      IN  IsPrefix(grp.log[r], e) /\ (Finished(r) => grp.log[r] = e)

\* a group whose ranks differ in fit_intercept never completes the fit
MixedFitStalls == (AllFit /\ ~Uniform) => ~(\A r \in Ranks : grp.pc[r] = "returned")

\* C13: predict performs no cross-rank communication: a rank in predict enters
\* no collective and waits for no other rank, so its call returns whatever
\* the other ranks do (call predict, call fit, call nothing).
C13_PredictLocal ==
  /\ [](\A r \in Ranks :
          grp.op[r] = "predict" => grp.log[r] = <<>> /\ grp.wait[r] = "none")
  /\ \A r \in Ranks : (grp.op[r] = "predict") ~> (grp.pc[r] = "returned")

\* rank 0 has returned from predict while rank 1 never called it, and sits in
\* a collective of a fit that rank 0 will never enter
C13_Witness ==
  /\ grp.op[0] = "predict" /\ grp.pc[0] = "returned"
  /\ grp.op[1] = "fit" /\ grp.wait[1] = "preProcessData"

\* C14: between calls that returned normally nothing the core allocated is
\* live: every stream a call created and every scratch buffer it allocated
\* (centering statistics, S, V, U_parts, S_nnz) was released by that call.
C14_NothingLive ==
  pc \in {"returned", "idle"} =>
    /\ live = {} /\ scratch = {}
    /\ Cardinality(live) + Cardinality(scratch) = 0

\* the second call, a Ridge fit that allocated all of them, has returned
C14_Witness ==
  /\ pc = "returned" /\ ncalls = 2 /\ IsFit /\ call.model = "Ridge"
  /\ call.fit_intercept /\ call.normalize /\ n_streams = 2
  /\ \E k \in DOMAIN ghost.calls : ghost.calls[k] = "mv_aTb"
  /\ \E q \in DOMAIN ghost.hist : ghost.hist[q].e = "destroy"
  /\ live = {} /\ scratch = {}

\* C15: every stream index a fit uses is smaller than the number of streams
\* the call created, and fit allocates on and issues work to streams of its
\* own pool only, also when the calling rank owns no block of the layout
\* (taken for layouts of at least one block).
C15_StreamIndexInPool ==
  (IsFit /\ pc # "create" /\ call.parts # <<>>) =>
    /\ \A k \in ghost.idx : k < n_streams
    /\ \A q \in DOMAIN ghost.hist :
         ghost.hist[q].e = "issue" => ghost.hist[q].h \in Range(streams)

\* C16: when a fit ends in the "not implemented" assertion, the caller's
\* design-matrix and label partitions hold the values they had at entry,
\* for every fit_intercept and normalize (taken for a rank that owns a block).
C16_DataIntactOnAssert ==
  (IsFit /\ pc = "aborted" /\ abort = "not implemented" /\ n_streams > 0) =>
    dev.input = "entry" /\ dev.labels = "entry"

\* the sub-buffers i and j of U_parts do not overlap
DisjointSub(N, a, b) ==
  a.ptr + a.totalSize * N <= b.ptr \/ b.ptr + b.totalSize * N <= a.ptr

\* C17: ridgeEig carves U_parts into one sub-buffer per owned block, the
\* i-th at offset N * (sizes of the owned blocks before it) with room for
\* size_i * N elements, pairwise disjoint and inside the one allocation of
\* N * (sum of the owned sizes) elements, and every entry of U is one of
\* these sub-buffers: the loop over the input partitions does not index past
\* the blocks the rank owns (taken for a rank that owns a block).
C17_UCarving ==
  (IsFit /\ U # <<>> /\ n_streams > 0) =>
    LET own == blocksOwnedBy(call.parts, rank)
        t == U.U_temp
    IN  /\ Len(t) = Len(own)
        /\ U.total_size = call.N * SumSizes(call.parts, own, Len(own))
        /\ \A k \in DOMAIN t :
             /\ t[k].ptr = call.N * SumSizes(call.parts, own, k - 1)
             /\ t[k].totalSize = call.parts[own[k]].size
             /\ t[k].ptr + t[k].totalSize * call.N <= U.total_size
             /\ \A j \in DOMAIN t : j # k => DisjointSub(call.N, t[k], t[j])
        /\ \A k \in DOMAIN U.U : U.U[k] \in DOMAIN t
====
